---- MODULE Spec2Model ----
(***************************************************************************)
(* Model of the FMU web interface: the in-memory SessionStore and the      *)
(* retention sweep (fmu_web/storage.py), the time-series merger            *)
(* (fmu_web/inputs.py), the configuration template                         *)
(* (fmu_web/fmu_service.py), the HTTP handlers of fmu_web/routes.py, the   *)
(* shutdown handlers of fmu_web/app.py and the download handler of the     *)
(* top-level script app.py.                                                *)
(*                                                                         *)
(* Specifications:                                                         *)
(*   Spec         calls of the SessionStore API, one at a time, and the    *)
(*                shutdown of the process                                  *)
(*   SpecMerge    build_structured_input applied to a bounded set of       *)
(*                requests                                                 *)
(*   SpecConc     one thread in add_result, one in clear, step by step     *)
(*   SpecHttp     requests to the handlers of routes.py and app.py         *)
(*   SpecSweep    cleanup_old_files applied to a bounded set of            *)
(*                directories                                              *)
(*   SpecTemplate generate_template, and a run of the template             *)
(*   SpecFmu      one thread in set_fmu, one running the model,            *)
(*                step by step                                             *)
(*   SpecUpload   model uploads to a server whose store holds a session    *)
(***************************************************************************)
EXTENDS Integers, Sequences, FiniteSets, TLC

VARIABLES
    state,      \* SessionStore._state: the SessionState dataclass instance
    nextToken,  \* number of tokens handed out so far by _new_token
    last,       \* the last completed call: operation, arguments, return value, state before
    live,       \* tokens returned by add_result since the latest set_fmu / clear
    input_cfg,  \* the "inputs" list of a run request: [[name, [[t, v], ...]], ...]
    mpc,        \* "compose" while the request is written, "done" once it was merged
    merged,     \* what build_structured_input returned for input_cfg
    c_objs,     \* the SessionState objects allocated so far (fields; result_blobs is a dict reference)
    c_dicts,    \* the result_blobs dict objects allocated so far
    c_self,     \* self._state: a reference into c_objs
    a_pc,       \* where the thread calling add_result stands
    a_loc,      \* its arguments, locals and evaluation stack
    a_rets,     \* the tokens its calls of add_result returned
    k_pc,       \* where the thread calling clear stands
    k_loc,      \* its locals and evaluation stack
    k_ret,      \* what its call of clear returned
    disk,       \* the files that exist, as resolved absolute paths
    clock,      \* datetime.now(), in whole seconds
    engine_call, \* the call of simulate_fmu the last request made, if any
    sent,       \* the path the last request passed to send_file, if any
    resp,       \* the response to the last request
    calls,      \* the calls the last request made to its collaborators, in order
    dir_entries, \* the upload directory: whether it exists, and its direct entries
    swept,      \* the last call of cleanup_old_files: arguments, directory before, return value
    md,         \* md.modelVariables of the model description read from the uploaded model
    template,   \* the "config" of what generate_template returned for md
    f_pc,       \* where the thread calling set_fmu stands
    f_loc,      \* its arguments and locals
    f_ret,      \* what its call of set_fmu returned
    r_seen      \* what the thread running the model read through the properties

storeVars == <<state, nextToken, last, live>>
mergeVars == <<input_cfg, mpc, merged>>
concVars == <<c_objs, c_dicts, c_self, a_pc, a_loc, a_rets, k_pc, k_loc, k_ret>>
httpVars == <<disk, clock, engine_call, sent, resp, calls>>
sweepVars == <<dir_entries, swept>>
tmplVars == <<md, template>>
fmuVars == <<f_pc, f_loc, f_ret, r_seen>>
vars == <<state, nextToken, last, live, input_cfg, mpc, merged,
          c_objs, c_dicts, c_self, a_pc, a_loc, a_rets, k_pc, k_loc, k_ret,
          disk, clock, engine_call, sent, resp, calls,
          dir_entries, swept, md, template, f_pc, f_loc, f_ret, r_seen>>

----------------------------------------------------------------------------
(* Bounds of the model *)

MaxTokens == 4      \* calls of _new_token in one behaviour
MaxName == 2        \* display names are 1..MaxName
MaxBlob == 2        \* payloads are 1..MaxBlob

Names == 1..MaxName
Blobs == 1..MaxBlob

----------------------------------------------------------------------------
(* storage.py *)

\* Python's None in an Optional[str] / Optional[bytes] field
None == 0

\* Python's None as the result of dict.get: no (name, bytes) tuple
NoArtifact == <<>>

\* SessionState(): every field None, result_blobs a new empty dict.
\* A dict is the sequence of its items in insertion order.
SessionState ==
    [fmu_token |-> None, fmu_name |-> None, fmu_bytes |-> None,
     input_token |-> None, input_name |-> None, input_bytes |-> None,
     result_blobs |-> <<>>]

\* dict.keys(): the keys in insertion order
dict_keys(d) == [i \in 1..Len(d) |-> d[i].key]

\* d[key] = value: replaces the value of an existing key in place, else appends
dict_setitem(d, key, value) ==
    IF \E i \in 1..Len(d) : d[i].key = key
    THEN [i \in 1..Len(d) |-> IF d[i].key = key THEN [key |-> key, value |-> value] ELSE d[i]]
    ELSE Append(d, [key |-> key, value |-> value])

\* d.get(key)
dict_get(d, key) ==
    IF \E i \in 1..Len(d) : d[i].key = key
    THEN (CHOOSE e \in {d[i] : i \in 1..Len(d)} : e.key = key).value
    ELSE NoArtifact

\* _new_token(): "mem:" + uuid4().hex, a value no earlier call returned;
\* the k-th call returns k
new_token(issued) == issued + 1

\* set_fmu without lines 58-60: the auxiliary artifact survives a new primary
set_fmu_keeps_input(s, token, name, data) ==
    [s EXCEPT !.fmu_token = token, !.fmu_name = name, !.fmu_bytes = data,
              !.result_blobs = <<>>]

\* set_fmu without line 61: the results survive a new primary
set_fmu_keeps_results(s, token, name, data) ==
    [s EXCEPT !.fmu_token = token, !.fmu_name = name, !.fmu_bytes = data,
              !.input_token = None, !.input_name = None, !.input_bytes = None]

\* SessionStore.set_fmu: the state it leaves
set_fmu_state(s, token, name, data) ==
    [s EXCEPT !.fmu_token = token, !.fmu_name = name, !.fmu_bytes = data,
              !.input_token = None, !.input_name = None, !.input_bytes = None,
              !.result_blobs = <<>>]

\* set_input that also starts a new result mapping, as set_fmu does
set_input_clears_results(s, token, name, data) ==
    [s EXCEPT !.input_token = token, !.input_name = name, !.input_bytes = data,
              !.result_blobs = <<>>]

\* SessionStore.set_input: the state it leaves
set_input_state(s, token, name, data) ==
    [s EXCEPT !.input_token = token, !.input_name = name, !.input_bytes = data]

\* add_result that rebinds result_blobs to a dict holding only the new entry
add_result_rebinds(s, token, name, data) ==
    [s EXCEPT !.result_blobs = <<[key |-> token, value |-> <<name, data>>]>>]

\* SessionStore.add_result: the state it leaves
add_result_state(s, token, name, data) ==
    [s EXCEPT !.result_blobs = dict_setitem(@, token, <<name, data>>)]

\* SessionStore.get_result
get_result(s, token) == dict_get(s.result_blobs, token)

\* a clear that reports the primary and auxiliary tokens without testing them
clear_removed_untested(s) ==
    <<s.fmu_token>> \o <<s.input_token>> \o dict_keys(s.result_blobs)

\* SessionStore.clear: the list it builds in `removed`
clear_removed(s) ==
    (IF s.fmu_token # None THEN <<s.fmu_token>> ELSE <<>>)
    \o (IF s.input_token # None THEN <<s.input_token>> ELSE <<>>)
    \o dict_keys(s.result_blobs)

\* SessionStore.clear: the state it leaves
clear_state(s) == SessionState

\* SessionStore.clear: the dict it returns
clear_result(s) == [removed |-> clear_removed(s), errors |-> <<>>]

----------------------------------------------------------------------------
(* inputs.py *)

MaxSched == 2       \* schedules in one request
MaxSamples == 3     \* samples in one request, over all its schedules

\* A float64 time is [s, e]: s seconds plus e times 1e-15 seconds, |e| small
Time(s, e) == [s |-> s, e |-> e]
TimeVals == {Time(0, 0), Time(1, 0), Time(1, 1), Time(2, 0)}
SampleVals == {1, 5, 9}

\* float <= float
TimeLeq(a, b) == a.s < b.s \/ (a.s = b.s /\ a.e <= b.e)

\* the literal 1e-15 of the hold loop, in units of 1e-15 s
Tol == 1

\* t + 1e-15
AddTol(t) == Time(t.s, t.e + Tol)

\* a JSON scalar of the request: a number, or a string holding a number or not
Num(x) == [kind |-> "num", val |-> x]
Text(x) == [kind |-> "text", val |-> x]
BadText == [kind |-> "bad", val |-> 0]

\* float(x) raises ValueError on a string that is no number
float_raises(x) == x.kind = "bad"

\* float(x): the number, or the number a numeric string spells
to_float(x) == x.val

\* normalize_inputs: raises when a float() does
normalize_raises(cfg) ==
    \E i \in 1..Len(cfg) : \E j \in 1..Len(cfg[i].samples) :
        float_raises(cfg[i].samples[j].t) \/ float_raises(cfg[i].samples[j].v)

\* normalize_inputs: [name, [[float(t), float(v)], ...]] for every schedule
normalize_inputs(cfg) ==
    [i \in 1..Len(cfg) |->
        [name |-> cfg[i].name,
         samples |-> [j \in 1..Len(cfg[i].samples) |->
                        [t |-> to_float(cfg[i].samples[j].t),
                         v |-> to_float(cfg[i].samples[j].v)]]]]

\* a sort that puts an element before the elements of equal time (not stable)
sort_insert_before_equal(sorted, x) ==
    LET k == Cardinality({i \in 1..Len(sorted) : TimeLeq(sorted[i].t, x.t) /\ sorted[i].t # x.t})
    IN SubSeq(sorted, 1, k) \o <<x>> \o SubSeq(sorted, k + 1, Len(sorted))

\* list.sort(key=lambda x: x[0]) inserts one element: after every element
\* whose time is not greater (the sort is stable)
sort_insert(sorted, x) ==
    LET k == Cardinality({i \in 1..Len(sorted) : TimeLeq(sorted[i].t, x.t)})
    IN SubSeq(sorted, 1, k) \o <<x>> \o SubSeq(sorted, k + 1, Len(sorted))

\* ts.sort(key=lambda x: x[0])
RECURSIVE sort_by_time(_)
sort_by_time(ts) ==
    IF ts = <<>> THEN <<>>
    ELSE sort_insert(sort_by_time(SubSeq(ts, 1, Len(ts) - 1)), ts[Len(ts)])

\* the loop of lines 28-33, from schedule i on: series maps each name to its
\* sorted samples (a later schedule of the same name replaces an earlier one)
RECURSIVE build_series(_, _, _)
build_series(cfg, i, series) ==
    IF i > Len(cfg) THEN series
    ELSE build_series(cfg, i + 1,
                      dict_setitem(series, cfg[i].name, sort_by_time(cfg[i].samples)))

\* all_times of the first schedule only
all_times_first(cfg) ==
    IF cfg = <<>> THEN {} ELSE {cfg[1].samples[j].t : j \in 1..Len(cfg[1].samples)}

\* all_times: the set of the times of all samples
all_times_of(cfg) ==
    UNION {{cfg[i].samples[j].t : j \in 1..Len(cfg[i].samples)} : i \in 1..Len(cfg)}

\* sorted(all_times)
RECURSIVE sorted_times(_)
sorted_times(S) ==
    IF S = {} THEN <<>>
    ELSE LET m == CHOOSE x \in S : \A y \in S : TimeLeq(x, y)
         IN <<m>> \o sorted_times(S \ {m})

\* the hold loop with `<` in place of `<=`
RECURSIVE hold_advance_strict(_, _, _, _)
hold_advance_strict(ts, idx, lastv, t) ==
    IF idx + 1 <= Len(ts) /\ ~TimeLeq(AddTol(t), ts[idx + 1].t)
    THEN hold_advance_strict(ts, idx + 1, ts[idx + 1].v, t)
    ELSE [idx |-> idx, last |-> lastv]

\* the while loop of lines 50-52: idx is the Python idx + 1
RECURSIVE hold_advance(_, _, _, _)
hold_advance(ts, idx, lastv, t) ==
    IF idx + 1 <= Len(ts) /\ TimeLeq(ts[idx + 1].t, AddTol(t))
    THEN hold_advance(ts, idx + 1, ts[idx + 1].v, t)
    ELSE [idx |-> idx, last |-> lastv]

\* the for loop of lines 49-53, from times[i] on
RECURSIVE hold_fill(_, _, _, _, _)
hold_fill(ts, times, i, idx, lastv) ==
    IF i > Len(times) THEN <<>>
    ELSE LET a == hold_advance(ts, idx, lastv, times[i])
         IN <<a.last>> \o hold_fill(ts, times, i + 1, a.idx, a.last)

\* a column that starts from 0.0 instead of the first sample's value
signal_column_from_zero(ts, times) ==
    IF ts = <<>> THEN [i \in 1..Len(times) |-> 0]
    ELSE hold_fill(ts, times, 1, 0, 0)

\* a column that is left without values when the signal has no sample
signal_column_empty_skipped(ts, times) ==
    IF ts = <<>> THEN <<>>
    ELSE hold_fill(ts, times, 1, 1, ts[1].v)

\* lines 44-53 for one signal: its column of the table
signal_column(ts, times) ==
    IF ts = <<>> THEN [i \in 1..Len(times) |-> 0]
    ELSE hold_fill(ts, times, 1, 1, ts[1].v)

NoTable == [kind |-> "none", times |-> <<>>, cols |-> <<>>]
MergeError == [kind |-> "error", times |-> <<>>, cols |-> <<>>]

\* build_structured_input without lines 35-36: a table with no rows when no
\* schedule has a sample
build_structured_input_unguarded(cfg) ==
    IF cfg = <<>> THEN NoTable
    ELSE IF normalize_raises(cfg) THEN MergeError
    ELSE LET norm == normalize_inputs(cfg)
             series == build_series(norm, 1, <<>>)
             times == sorted_times(all_times_of(norm))
         IN [kind |-> "table",
             times |-> times,
             cols |-> [k \in 1..Len(series) |->
                         [key |-> series[k].key,
                          value |-> signal_column(series[k].value, times)]]]

\* build_structured_input: None, a ValueError, or the structured array as
\* its time column and the dict of the other columns, in field order
build_structured_input(cfg) ==
    IF cfg = <<>> THEN NoTable
    ELSE IF normalize_raises(cfg) THEN MergeError
    ELSE LET norm == normalize_inputs(cfg)
             series == build_series(norm, 1, <<>>)
             all_times == all_times_of(norm)
             times == sorted_times(all_times)
         IN IF all_times = {} THEN NoTable
            ELSE [kind |-> "table",
                  times |-> times,
                  cols |-> [k \in 1..Len(series) |->
                              [key |-> series[k].key,
                               value |-> signal_column(series[k].value, times)]]]

\* data[name] of a returned table
column(table, name) == dict_get(table.cols, name)

----------------------------------------------------------------------------
(* Spec: calls of the store API, one at a time *)

\* the locals of a thread inside a store method
NoFrame == [name |-> None, data |-> None, token |-> None, obj |-> 0, dict |-> 0,
            removed |-> <<>>]

\* clear has not returned
NoReturn == [returned |-> FALSE, removed |-> <<>>, errors |-> <<>>]

\* a resolved absolute path: directory, kind of file name, timestamp in the name
Path(dir, kind, ts) == [dir |-> dir, kind |-> kind, ts |-> ts]

\* no path: a request field that is absent, None or ""
NoPath == Path("", "", 0)

\* the start_values of a request or of a call of the engine: absent (None),
\* or a dict
NoStartValues == [given |-> FALSE, dict |-> <<>>]
StartValues(d) == [given |-> TRUE, dict |-> d]

\* simulate_fmu was not called
NoEngineCall == [called |-> FALSE, filename |-> NoPath, input_file |-> NoPath,
                 input |-> FALSE, start_values |-> NoStartValues]

\* no response yet
NoResponse == [handler |-> "none", status |-> 0, error |-> "none", logs |-> <<>>,
               removed |-> <<>>, errors |-> <<>>, path |-> NoPath]

NoCall == [op |-> "none", name |-> None, data |-> None, ret |-> None,
           removed |-> <<>>, errors |-> <<>>, pre |-> SessionState]

\* no run request is being merged
MergeIdle ==
    /\ input_cfg = <<>>
    /\ mpc = "idle"
    /\ merged = NoTable

\* no thread is inside the store
ConcIdle ==
    /\ c_objs = <<>>
    /\ c_dicts = <<>>
    /\ c_self = 0
    /\ a_pc = "idle"
    /\ a_loc = NoFrame
    /\ a_rets = {}
    /\ k_pc = "idle"
    /\ k_loc = NoFrame
    /\ k_ret = NoReturn

\* no request was made
HttpIdle ==
    /\ disk = {}
    /\ clock = 0
    /\ engine_call = NoEngineCall
    /\ sent = NoPath
    /\ resp = NoResponse
    /\ calls = <<>>

\* no directory: upload_dir.exists() is false
NoDirectory == [exists |-> FALSE, entries |-> <<>>]

\* cleanup_old_files was not called
NoSweep == [done |-> FALSE, now |-> 0, max_age_hours |-> 0, before |-> NoDirectory,
            removed_count |-> 0]

\* generate_template was not called
NoTemplate == [generated |-> FALSE, fmu |-> NoPath, start_values |-> <<>>,
               inputs |-> <<>>, input_file |-> NoPath, validate |-> FALSE,
               debug_logging |-> FALSE]

\* set_fmu has not returned
NoToken == [returned |-> FALSE, token |-> None]

\* nothing was read through the properties
NoSeen == [reads |-> 0, fmu_token |-> None, input_token |-> None]

\* no directory is swept
SweepIdle ==
    /\ dir_entries = NoDirectory
    /\ swept = NoSweep

\* no model description was read
TmplIdle ==
    /\ md = <<>>
    /\ template = NoTemplate

\* no thread is inside set_fmu, none runs the model
FmuIdle ==
    /\ f_pc = "idle"
    /\ f_loc = NoFrame
    /\ f_ret = NoToken
    /\ r_seen = NoSeen

StoreInit ==
    /\ state = SessionState
    /\ nextToken = 0
    /\ last = NoCall
    /\ live = {}

Init ==
    /\ StoreInit
    /\ MergeIdle
    /\ ConcIdle
    /\ HttpIdle
    /\ SweepIdle
    /\ TmplIdle
    /\ FmuIdle

set_fmu(name, data) ==
    /\ nextToken < MaxTokens
    /\ LET token == new_token(nextToken) IN
        /\ state' = set_fmu_state(state, token, name, data)
        /\ nextToken' = token
        /\ last' = [NoCall EXCEPT !.op = "set_fmu", !.name = name, !.data = data,
                                   !.ret = token, !.pre = state]
        /\ live' = {}

set_input(name, data) ==
    /\ nextToken < MaxTokens
    /\ LET token == new_token(nextToken) IN
        /\ state' = set_input_state(state, token, name, data)
        /\ nextToken' = token
        /\ last' = [NoCall EXCEPT !.op = "set_input", !.name = name, !.data = data,
                                   !.ret = token, !.pre = state]
        /\ live' = live

add_result(name, data) ==
    /\ nextToken < MaxTokens
    /\ LET token == new_token(nextToken) IN
        /\ state' = add_result_state(state, token, name, data)
        /\ nextToken' = token
        /\ last' = [NoCall EXCEPT !.op = "add_result", !.name = name, !.data = data,
                                   !.ret = token, !.pre = state]
        /\ live' = live \cup {token}

clear ==
    /\ state' = clear_state(state)
    /\ last' = [NoCall EXCEPT !.op = "clear", !.removed = clear_result(state).removed,
                               !.errors = clear_result(state).errors, !.pre = state]
    /\ live' = {}
    /\ UNCHANGED nextToken

\* the process has not been told to shut down
Running == last.op \notin {"cleanup_handler", "atexit"}

\* SIGINT or SIGTERM arrives: cleanup_handler clears the store and raises
\* SystemExit
cleanup_handler ==
    /\ Running
    /\ state' = clear_state(state)
    /\ last' = [NoCall EXCEPT !.op = "cleanup_handler",
                               !.removed = clear_result(state).removed,
                               !.errors = clear_result(state).errors, !.pre = state]
    /\ live' = {}
    /\ UNCHANGED nextToken

\* the interpreter exits: the hook registered with atexit clears the store
atexit_clear ==
    /\ last.op = "cleanup_handler"
    /\ state' = clear_state(state)
    /\ last' = [NoCall EXCEPT !.op = "atexit",
                               !.removed = clear_result(state).removed,
                               !.errors = clear_result(state).errors, !.pre = state]
    /\ live' = {}
    /\ UNCHANGED nextToken

Next ==
    \/ (\E name \in Names, data \in Blobs : Running /\ set_fmu(name, data))
            /\ UNCHANGED <<mergeVars, concVars, httpVars, sweepVars, tmplVars, fmuVars>>
    \/ (\E name \in Names, data \in Blobs : Running /\ set_input(name, data))
            /\ UNCHANGED <<mergeVars, concVars, httpVars, sweepVars, tmplVars, fmuVars>>
    \/ (\E name \in Names, data \in Blobs : Running /\ add_result(name, data))
            /\ UNCHANGED <<mergeVars, concVars, httpVars, sweepVars, tmplVars, fmuVars>>
    \/ (Running /\ clear) /\ UNCHANGED <<mergeVars, concVars, httpVars, sweepVars, tmplVars, fmuVars>>
    \/ cleanup_handler /\ UNCHANGED <<mergeVars, concVars, httpVars, sweepVars, tmplVars, fmuVars>>
    \/ atexit_clear /\ UNCHANGED <<mergeVars, concVars, httpVars, sweepVars, tmplVars, fmuVars>>

Spec == Init /\ [][Next]_vars

----------------------------------------------------------------------------
(* SpecMerge: a client writes the "inputs" of a run request, schedule by
   schedule and sample by sample, and build_structured_input merges it *)

total_samples(cfg) ==
    Cardinality({<<i, j>> \in (1..MaxSched) \X (1..MaxSamples) :
                    i <= Len(cfg) /\ j <= Len(cfg[i].samples)})

MergeInit ==
    /\ input_cfg = <<>>
    /\ mpc = "compose"
    /\ merged = NoTable

\* the next schedule of the request; signal names are unique per request
AddSchedule ==
    /\ mpc = "compose"
    /\ Len(input_cfg) < MaxSched
    /\ input_cfg' = Append(input_cfg, [name |-> Len(input_cfg) + 1, samples |-> <<>>])
    /\ UNCHANGED <<mpc, merged>>

\* one more [t, v] pair in the schedule written last
AddSample(t, v) ==
    /\ mpc = "compose"
    /\ Len(input_cfg) > 0
    /\ total_samples(input_cfg) < MaxSamples
    /\ input_cfg' = [input_cfg EXCEPT ![Len(input_cfg)].samples =
                        Append(@, [t |-> Num(t), v |-> Num(v)])]
    /\ UNCHANGED <<mpc, merged>>

\* signals = build_structured_input(raw_inputs)
Build ==
    /\ mpc = "compose"
    /\ merged' = build_structured_input(input_cfg)
    /\ mpc' = "done"
    /\ UNCHANGED input_cfg

MergeNext ==
    \/ AddSchedule /\ UNCHANGED <<storeVars, concVars, httpVars, sweepVars, tmplVars, fmuVars>>
    \/ (\E t \in TimeVals, v \in SampleVals : AddSample(t, v))
            /\ UNCHANGED <<storeVars, concVars, httpVars, sweepVars, tmplVars, fmuVars>>
    \/ Build /\ UNCHANGED <<storeVars, concVars, httpVars, sweepVars, tmplVars, fmuVars>>

InitMerge ==
    /\ StoreInit
    /\ MergeInit
    /\ ConcIdle
    /\ HttpIdle
    /\ SweepIdle
    /\ TmplIdle
    /\ FmuIdle

SpecMerge == InitMerge /\ [][MergeNext]_vars

----------------------------------------------------------------------------
(* Claims about the store, checked under Spec *)

\* C1: after set_fmu returns, whatever the state before, the session holds
\* exactly the new primary (name and bytes under the returned token), no
\* auxiliary artifact and an empty result mapping.
C1_SetFmuReplacesSession ==
    last.op = "set_fmu" =>
        /\ last.ret # None
        /\ state = [fmu_token |-> last.ret, fmu_name |-> last.name, fmu_bytes |-> last.data,
                    input_token |-> None, input_name |-> None, input_bytes |-> None,
                    result_blobs |-> <<>>]

\* set_fmu has returned in a session that held a primary, an auxiliary and a result
C1_Witness ==
    /\ last.op = "set_fmu"
    /\ last.pre.fmu_token # None
    /\ last.pre.input_token # None
    /\ Len(last.pre.result_blobs) > 0

\* C2: after any sequence of set_fmu, set_input, add_result and clear,
\* get_result(token) returns an artifact if and only if the token was returned
\* by an add_result executed after the most recent set_fmu or clear (so a
\* result stored before a second set_fmu, and an unknown token, resolve to
\* nothing).
C2_ResolvesIffLive ==
    \A token \in 1..(MaxTokens + 1) :
        (get_result(state, token) # NoArtifact) <=> (token \in live)

\* set_fmu, add_result, set_fmu: the first result's token resolves to nothing,
\* and so does a token that was never issued
C2_Witness ==
    /\ last.op = "set_fmu"
    /\ last.pre.fmu_token # None
    /\ Len(last.pre.result_blobs) = 1
    /\ get_result(last.pre, last.pre.result_blobs[1].key) # NoArtifact
    /\ get_result(state, last.pre.result_blobs[1].key) = NoArtifact
    /\ get_result(state, nextToken + 1) = NoArtifact

\* C10: add_result only adds: every result token that resolved before the call
\* resolves afterwards to the same (name, bytes), primary and auxiliary are
\* unchanged, and the mapping grows by exactly one entry, under the returned
\* token.
C10_AddResultOnlyAdds ==
    last.op = "add_result" =>
        /\ \A token \in 1..(MaxTokens + 1) :
               get_result(last.pre, token) # NoArtifact =>
                   get_result(state, token) = get_result(last.pre, token)
        /\ state.fmu_token = last.pre.fmu_token
        /\ state.fmu_name = last.pre.fmu_name
        /\ state.fmu_bytes = last.pre.fmu_bytes
        /\ state.input_token = last.pre.input_token
        /\ state.input_name = last.pre.input_name
        /\ state.input_bytes = last.pre.input_bytes
        /\ Len(state.result_blobs) = Len(last.pre.result_blobs) + 1
        /\ get_result(last.pre, last.ret) = NoArtifact
        /\ get_result(state, last.ret) = <<last.name, last.data>>

\* add_result has returned in a session that already held a primary, an
\* auxiliary and a result
C10_Witness ==
    /\ last.op = "add_result"
    /\ Len(last.pre.result_blobs) > 0
    /\ last.pre.fmu_token # None
    /\ last.pre.input_token # None

\* C11: set_input replaces only the auxiliary artifact: after the call the
\* auxiliary is the given name and bytes under the returned token, and the
\* primary's token, name and bytes and the whole result mapping are what they
\* were before it, in every state, one without a primary included.
C11_SetInputReplacesOnlyInput ==
    last.op = "set_input" =>
        /\ state.input_token = last.ret
        /\ state.input_name = last.name
        /\ state.input_bytes = last.data
        /\ state.fmu_token = last.pre.fmu_token
        /\ state.fmu_name = last.pre.fmu_name
        /\ state.fmu_bytes = last.pre.fmu_bytes
        /\ state.result_blobs = last.pre.result_blobs

\* set_input has returned in a session that held no primary, but an auxiliary
\* artifact and a result
C11_Witness ==
    /\ last.op = "set_input"
    /\ last.pre.fmu_token = None
    /\ last.pre.input_token # None
    /\ Len(last.pre.result_blobs) > 0

\* C23: clear on an empty session returns no removed tokens and no errors
\* and leaves the session empty; so clear is idempotent, and the second of
\* the two clears of a shutdown (cleanup_handler, then the atexit hook)
\* removes nothing and reports nothing.
C23_ClearOfEmptySession ==
    /\ (last.op \in {"clear", "cleanup_handler", "atexit"} /\ last.pre = SessionState) =>
           /\ last.removed = <<>>
           /\ last.errors = <<>>
           /\ state = SessionState
    /\ last.op \in {"clear", "cleanup_handler", "atexit"} =>
           /\ state = SessionState
           /\ clear_state(state) = state
           /\ clear_result(state) = [removed |-> <<>>, errors |-> <<>>]
    /\ last.op = "atexit" =>
           /\ last.pre = SessionState
           /\ last.removed = <<>>
           /\ last.errors = <<>>

\* the atexit hook has cleared a store in which tokens had been issued and
\* which cleanup_handler had cleared before it
C23_Witness ==
    /\ last.op = "atexit"
    /\ nextToken >= 3
    /\ last.pre = SessionState
    /\ state = SessionState

----------------------------------------------------------------------------
(* Claims about the merger, checked under SpecMerge *)

\* the samples of schedule i as (time, value) numbers, in request order
samples_of(cfg, i) ==
    [j \in 1..Len(cfg[i].samples) |->
        [t |-> to_float(cfg[i].samples[j].t), v |-> to_float(cfg[i].samples[j].v)]]

\* a < b
TimeLess(a, b) == TimeLeq(a, b) /\ a # b

\* The value a signal holds when its samples with time at or before `bound`
\* count as past: that of the latest of them (of equal times, the one given
\* last), and that of its earliest sample (of equal times, the one given
\* first) when there is none.
held_value(smp, bound) ==
    LET past == {j \in 1..Len(smp) : TimeLeq(smp[j].t, bound)}
        latest == CHOOSE j \in past : \A k \in past :
                      TimeLess(smp[k].t, smp[j].t) \/ (smp[k].t = smp[j].t /\ k <= j)
        first == CHOOSE j \in 1..Len(smp) : \A k \in 1..Len(smp) :
                      TimeLess(smp[j].t, smp[k].t) \/ (smp[k].t = smp[j].t /\ j <= k)
    IN IF past = {} THEN smp[first].v ELSE smp[latest].v

\* C6 as stated: for every signal with at least one sample and every timestamp
\* t of the merged time axis, the signal has the value of its latest sample
\* with time at or before t, and of its first sample when t precedes them all.
C6_HoldExact ==
    (mpc = "done" /\ merged.kind = "table") =>
        \A i \in 1..Len(input_cfg) : \A k \in 1..Len(merged.times) :
            Len(input_cfg[i].samples) > 0 =>
                column(merged, input_cfg[i].name)[k]
                    = held_value(samples_of(input_cfg, i), merged.times[k])

\* C6 amended: in a request with pairwise distinct signal names and times that
\* are numbers, for every signal with at least one sample and every timestamp t
\* of the merged time axis, the signal has the value of its latest sample with
\* time at or before t + 1e-15 (of several with that time, the one given last),
\* and the value of its earliest sample when no sample is that early.
C6_HoldWithinTolerance ==
    (mpc = "done" /\ merged.kind = "table") =>
        \A i \in 1..Len(input_cfg) : \A k \in 1..Len(merged.times) :
            Len(input_cfg[i].samples) > 0 =>
                column(merged, input_cfg[i].name)[k]
                    = held_value(samples_of(input_cfg, i), AddTol(merged.times[k]))

\* a merged table in which one signal is read before its first sample, and
\* another takes, at a timestamp t, the value of a sample lying within 1e-15
\* after t, which differs from its value at or before t
C6_Witness ==
    /\ mpc = "done"
    /\ merged.kind = "table"
    /\ \E i \in 1..Len(input_cfg) : \E k \in 1..Len(merged.times) :
        /\ Len(input_cfg[i].samples) > 0
        /\ \A j \in 1..Len(input_cfg[i].samples) :
               TimeLess(merged.times[k], samples_of(input_cfg, i)[j].t)
    /\ \E i \in 1..Len(input_cfg) : \E k \in 1..Len(merged.times) :
        /\ Len(input_cfg[i].samples) > 1
        /\ held_value(samples_of(input_cfg, i), AddTol(merged.times[k]))
               # held_value(samples_of(input_cfg, i), merged.times[k])

\* the request of C7: samples [(0,1),(2,5)] of one signal, [(1,9)] of another
C7_Sample(t, v) == [t |-> Num(Time(t, 0)), v |-> Num(v)]
C7_Request ==
    << [name |-> 1, samples |-> <<C7_Sample(0, 1), C7_Sample(2, 5)>>],
       [name |-> 2, samples |-> <<C7_Sample(1, 9)>>] >>

\* C7 as stated: merging [(0,1),(2,5)] with [(1,9)] yields times [0,1,2], first
\* column [1,1,5] and second column [0,9,9].
C7_ZeroBeforeFirstSample ==
    (mpc = "done" /\ input_cfg = C7_Request) =>
        /\ merged.kind = "table"
        /\ merged.times = <<Time(0, 0), Time(1, 0), Time(2, 0)>>
        /\ column(merged, 1) = <<1, 1, 5>>
        /\ column(merged, 2) = <<0, 9, 9>>

\* C7 amended: merging [(0,1),(2,5)] with [(1,9)] yields times [0,1,2], first
\* column [1,1,5] and second column [9,9,9]: the second signal holds its first
\* value at the timestamp before its first sample.
C7_FirstValueBeforeFirstSample ==
    (mpc = "done" /\ input_cfg = C7_Request) =>
        /\ merged.kind = "table"
        /\ merged.times = <<Time(0, 0), Time(1, 0), Time(2, 0)>>
        /\ column(merged, 1) = <<1, 1, 5>>
        /\ column(merged, 2) = <<9, 9, 9>>

\* the request of C7 has been merged
C7_Witness ==
    /\ mpc = "done"
    /\ input_cfg = C7_Request
    /\ Len(merged.times) = 3

\* the schedule list in another order
permuted(cfg, perm) == [i \in 1..Len(cfg) |-> cfg[perm[i]]]

\* C8: for every non-empty list of schedules with pairwise distinct names,
\* build_structured_input of any permutation of the list yields the same time
\* axis and the same column for each signal name.
C8_OrderOfSchedulesIrrelevant ==
    (mpc = "done" /\ Len(input_cfg) > 0) =>
        \A perm \in Permutations(1..Len(input_cfg)) :
            LET other == build_structured_input(permuted(input_cfg, perm))
            IN /\ other.kind = merged.kind
               /\ other.times = merged.times
               /\ merged.kind = "table" =>
                      \A i \in 1..Len(input_cfg) :
                          column(other, input_cfg[i].name) = column(merged, input_cfg[i].name)

\* two schedules with different samples were merged, and merging them in the
\* other order gives a table whose fields come in another order
C8_Witness ==
    /\ mpc = "done"
    /\ Len(input_cfg) = 2
    /\ merged.kind = "table"
    /\ Len(input_cfg[1].samples) > 0
    /\ Len(input_cfg[2].samples) > 0
    /\ column(merged, 1) # column(merged, 2)
    /\ build_structured_input(permuted(input_cfg, <<2, 1>>)).cols # merged.cols

\* some schedule of the request has a sample
has_sample(cfg) == \E i \in 1..Len(cfg) : Len(cfg[i].samples) > 0

\* C18: for a request whose times and values are numbers,
\* build_structured_input returns None exactly when the schedule list is empty
\* or every schedule in it has zero samples, and returns a table whenever at
\* least one schedule has at least one sample.
C18_NoneIffNoSample ==
    mpc = "done" =>
        /\ merged.kind = "none" <=> ~has_sample(input_cfg)
        /\ has_sample(input_cfg) => merged.kind = "table"

\* a list of two schedules, both without samples, was merged
C18_Witness ==
    /\ mpc = "done"
    /\ Len(input_cfg) = 2
    /\ ~has_sample(input_cfg)
    /\ merged = NoTable

\* C19: a signal with zero samples that is merged together with at least one
\* signal that has samples gets a column of value zero at every timestamp of
\* the merged time axis, and the merge does not fail.
C19_EmptySignalIsZero ==
    (mpc = "done" /\ has_sample(input_cfg)) =>
        /\ merged.kind = "table"
        /\ \A i \in 1..Len(input_cfg) :
               input_cfg[i].samples = <<>> =>
                   column(merged, input_cfg[i].name) = [k \in 1..Len(merged.times) |-> 0]

\* a signal without samples was merged with a signal that has samples at
\* several times
C19_Witness ==
    /\ mpc = "done"
    /\ Len(input_cfg) = 2
    /\ input_cfg[1].samples = <<>>
    /\ merged.kind = "table"
    /\ Len(merged.times) >= 2
    /\ column(merged, 1) = [k \in 1..Len(merged.times) |-> 0]
    /\ column(merged, 2) # column(merged, 1)

\* |a - b| <= 1e-15
within_tolerance(a, b) == TimeLeq(a, AddTol(b)) /\ TimeLeq(b, AddTol(a))

\* C20: the time axis of every returned table is strictly increasing, contains
\* every timestamp of every input schedule and no other, and contains no two
\* entries that lie within the 1e-15 equality tolerance of each other; every
\* column has exactly one value per time entry.
C20_AxisOfDistinctTimes ==
    (mpc = "done" /\ merged.kind = "table") =>
        /\ \A k \in 1..(Len(merged.times) - 1) :
               TimeLess(merged.times[k], merged.times[k + 1])
        /\ {merged.times[k] : k \in 1..Len(merged.times)}
               = all_times_of(normalize_inputs(input_cfg))
        /\ \A k, l \in 1..Len(merged.times) :
               k # l => ~within_tolerance(merged.times[k], merged.times[l])
        /\ \A c \in 1..Len(merged.cols) :
               Len(merged.cols[c].value) = Len(merged.times)

\* the positions of the samples of smp that have time t
samples_at(smp, t) == {j \in 1..Len(smp) : smp[j].t = t}

\* the positions of the samples of smp that lie after t, within 1e-15 of it
samples_just_after(smp, t) ==
    {j \in 1..Len(smp) : TimeLess(t, smp[j].t) /\ TimeLeq(smp[j].t, AddTol(t))}

\* the greatest position of a set of positions
last_of(S) == CHOOSE j \in S : \A k \in S : k <= j

\* C21 as stated: when one schedule contains several samples with the same
\* timestamp, the signal has at that timestamp the value of the sample given
\* last among them, also when the timestamp is the first of the time axis.
C21_LastDuplicateWins ==
    (mpc = "done" /\ merged.kind = "table") =>
        \A i \in 1..Len(input_cfg) : \A k \in 1..Len(merged.times) :
            LET smp == samples_of(input_cfg, i)
                dups == samples_at(smp, merged.times[k])
            IN Cardinality(dups) > 1 =>
                   column(merged, input_cfg[i].name)[k] = smp[last_of(dups)].v

\* C21 amended: when one schedule contains several samples with the same
\* timestamp t and no sample of a time after t within 1e-15 of it, the signal
\* has at t the value of the sample given last among those of time t, also
\* when t is the first point of the time axis; when the schedule has samples
\* after t within 1e-15 of it, the signal has at t the value of the latest of
\* these (of several with that time, the one given last).
C21_LastDuplicateWinsUnlessFollowed ==
    (mpc = "done" /\ merged.kind = "table") =>
        \A i \in 1..Len(input_cfg) : \A k \in 1..Len(merged.times) :
            LET smp == samples_of(input_cfg, i)
                dups == samples_at(smp, merged.times[k])
                near == samples_just_after(smp, merged.times[k])
                latest == {j \in near : \A l \in near : TimeLeq(smp[l].t, smp[j].t)}
            IN Cardinality(dups) > 1 =>
                   column(merged, input_cfg[i].name)[k]
                       = IF near = {} THEN smp[last_of(dups)].v
                         ELSE smp[last_of(latest)].v

\* a schedule gives two different values for the first timestamp of the time
\* axis, and the table holds the second one there
C21_Witness ==
    /\ mpc = "done"
    /\ merged.kind = "table"
    /\ Len(merged.times) >= 2
    /\ \E i \in 1..Len(input_cfg) :
         LET smp == samples_of(input_cfg, i)
             dups == samples_at(smp, merged.times[1])
         IN /\ Cardinality(dups) = 2
            /\ \E j \in dups : smp[j].v # smp[last_of(dups)].v
            /\ samples_just_after(smp, merged.times[1]) = {}
            /\ column(merged, input_cfg[i].name)[1] = smp[last_of(dups)].v

----------------------------------------------------------------------------
(* SpecConc: two request threads of the (threaded) server share the store:
   one calls add_result, one calls clear.  The store takes no lock, so the
   threads interleave between any two attribute loads and stores.  The
   SessionState objects and their result_blobs dicts live in a heap, and a
   thread holds references to them on its evaluation stack. *)

MaxPrior == 3       \* store calls made before the two threads start
MaxConcAdds == 1    \* calls of add_result the first thread makes

\* the session after n calls: set_fmu, set_input, then add_result
RECURSIVE session_after(_)
session_after(n) ==
    IF n = 0 THEN SessionState
    ELSE IF n = 1 THEN set_fmu_state(session_after(0), 1, 1, 1)
    ELSE IF n = 2 THEN set_input_state(session_after(1), 2, 1, 1)
    ELSE add_result_state(session_after(n - 1), n, 1, 1)

\* SessionStore.get_result on the heap
heap_get_result(token) == dict_get(c_dicts[c_objs[c_self].result_blobs], token)

ConcInit ==
    \E n \in 0..MaxPrior :
        /\ c_objs = <<[session_after(n) EXCEPT !.result_blobs = 1]>>
        /\ c_dicts = <<session_after(n).result_blobs>>
        /\ c_self = 1
        /\ nextToken = n
        /\ state = SessionState
        /\ last = NoCall
        /\ live = {}
        /\ a_pc = "idle"
        /\ a_loc = NoFrame
        /\ a_rets = {}
        /\ k_pc = "idle"
        /\ k_loc = NoFrame
        /\ k_ret = NoReturn

\* add_result(name, data) is called
a_call(name, data) ==
    /\ a_pc = "idle"
    /\ Cardinality(a_rets) < MaxConcAdds
    /\ a_pc' = "new_token"
    /\ a_loc' = [NoFrame EXCEPT !.name = name, !.data = data]
    /\ UNCHANGED <<c_objs, c_dicts, c_self, a_rets, k_pc, k_loc, k_ret, nextToken>>

\* token = _new_token()
a_new_token ==
    /\ a_pc = "new_token"
    /\ nextToken' = new_token(nextToken)
    /\ a_loc' = [a_loc EXCEPT !.token = new_token(nextToken)]
    /\ a_pc' = "load_state"
    /\ UNCHANGED <<c_objs, c_dicts, c_self, a_rets, k_pc, k_loc, k_ret>>

\* self._state
a_load_state ==
    /\ a_pc = "load_state"
    /\ a_loc' = [a_loc EXCEPT !.obj = c_self]
    /\ a_pc' = "load_dict"
    /\ UNCHANGED <<c_objs, c_dicts, c_self, a_rets, k_pc, k_loc, k_ret, nextToken>>

\* .result_blobs
a_load_dict ==
    /\ a_pc = "load_dict"
    /\ a_loc' = [a_loc EXCEPT !.dict = c_objs[a_loc.obj].result_blobs]
    /\ a_pc' = "store"
    /\ UNCHANGED <<c_objs, c_dicts, c_self, a_rets, k_pc, k_loc, k_ret, nextToken>>

\* [token] = (name, data)
a_store ==
    /\ a_pc = "store"
    /\ c_dicts' = [c_dicts EXCEPT ![a_loc.dict] =
                      dict_setitem(@, a_loc.token, <<a_loc.name, a_loc.data>>)]
    /\ a_pc' = "return"
    /\ UNCHANGED <<c_objs, c_self, a_loc, a_rets, k_pc, k_loc, k_ret, nextToken>>

\* return token
a_return ==
    /\ a_pc = "return"
    /\ a_rets' = a_rets \cup {a_loc.token}
    /\ a_loc' = NoFrame
    /\ a_pc' = "idle"
    /\ UNCHANGED <<c_objs, c_dicts, c_self, k_pc, k_loc, k_ret, nextToken>>

\* clear(upload_dir) is called: removed = []
k_call ==
    /\ k_pc = "idle"
    /\ ~k_ret.returned
    /\ k_loc' = NoFrame
    /\ k_pc' = "test_fmu"
    /\ UNCHANGED <<c_objs, c_dicts, c_self, a_pc, a_loc, a_rets, k_ret, nextToken>>

\* if self._state.fmu_token:
k_test_fmu ==
    /\ k_pc = "test_fmu"
    /\ k_pc' = IF c_objs[c_self].fmu_token # None THEN "append_fmu" ELSE "test_input"
    /\ UNCHANGED <<c_objs, c_dicts, c_self, a_pc, a_loc, a_rets, k_loc, k_ret, nextToken>>

\* removed.append(self._state.fmu_token)
k_append_fmu ==
    /\ k_pc = "append_fmu"
    /\ k_loc' = [k_loc EXCEPT !.removed = Append(@, c_objs[c_self].fmu_token)]
    /\ k_pc' = "test_input"
    /\ UNCHANGED <<c_objs, c_dicts, c_self, a_pc, a_loc, a_rets, k_ret, nextToken>>

\* if self._state.input_token:
k_test_input ==
    /\ k_pc = "test_input"
    /\ k_pc' = IF c_objs[c_self].input_token # None THEN "append_input" ELSE "load_state"
    /\ UNCHANGED <<c_objs, c_dicts, c_self, a_pc, a_loc, a_rets, k_loc, k_ret, nextToken>>

\* removed.append(self._state.input_token)
k_append_input ==
    /\ k_pc = "append_input"
    /\ k_loc' = [k_loc EXCEPT !.removed = Append(@, c_objs[c_self].input_token)]
    /\ k_pc' = "load_state"
    /\ UNCHANGED <<c_objs, c_dicts, c_self, a_pc, a_loc, a_rets, k_ret, nextToken>>

\* self._state
k_load_state ==
    /\ k_pc = "load_state"
    /\ k_loc' = [k_loc EXCEPT !.obj = c_self]
    /\ k_pc' = "load_dict"
    /\ UNCHANGED <<c_objs, c_dicts, c_self, a_pc, a_loc, a_rets, k_ret, nextToken>>

\* .result_blobs.keys(): a view of the dict
k_load_dict ==
    /\ k_pc = "load_dict"
    /\ k_loc' = [k_loc EXCEPT !.dict = c_objs[k_loc.obj].result_blobs]
    /\ k_pc' = "extend"
    /\ UNCHANGED <<c_objs, c_dicts, c_self, a_pc, a_loc, a_rets, k_ret, nextToken>>

\* removed.extend(...): reads the keys the dict holds now
k_extend ==
    /\ k_pc = "extend"
    /\ k_loc' = [k_loc EXCEPT !.removed = @ \o dict_keys(c_dicts[k_loc.dict])]
    /\ k_pc' = "new_state"
    /\ UNCHANGED <<c_objs, c_dicts, c_self, a_pc, a_loc, a_rets, k_ret, nextToken>>

\* self._state = SessionState()
k_new_state ==
    /\ k_pc = "new_state"
    /\ c_dicts' = Append(c_dicts, <<>>)
    /\ c_objs' = Append(c_objs, [SessionState EXCEPT !.result_blobs = Len(c_dicts) + 1])
    /\ c_self' = Len(c_objs) + 1
    /\ k_pc' = "return"
    /\ UNCHANGED <<a_pc, a_loc, a_rets, k_loc, k_ret, nextToken>>

\* return {"removed": removed, "errors": []}
k_return ==
    /\ k_pc = "return"
    /\ k_ret' = [returned |-> TRUE, removed |-> k_loc.removed, errors |-> <<>>]
    /\ k_loc' = NoFrame
    /\ k_pc' = "idle"
    /\ UNCHANGED <<c_objs, c_dicts, c_self, a_pc, a_loc, a_rets, nextToken>>

concFrame == <<state, last, live, mergeVars, httpVars, sweepVars, tmplVars, fmuVars>>

ConcNext ==
    \/ (\E name \in Names, data \in Blobs : a_call(name, data)) /\ UNCHANGED concFrame
    \/ a_new_token /\ UNCHANGED concFrame
    \/ a_load_state /\ UNCHANGED concFrame
    \/ a_load_dict /\ UNCHANGED concFrame
    \/ a_store /\ UNCHANGED concFrame
    \/ a_return /\ UNCHANGED concFrame
    \/ k_call /\ UNCHANGED concFrame
    \/ k_test_fmu /\ UNCHANGED concFrame
    \/ k_append_fmu /\ UNCHANGED concFrame
    \/ k_test_input /\ UNCHANGED concFrame
    \/ k_append_input /\ UNCHANGED concFrame
    \/ k_load_state /\ UNCHANGED concFrame
    \/ k_load_dict /\ UNCHANGED concFrame
    \/ k_extend /\ UNCHANGED concFrame
    \/ k_new_state /\ UNCHANGED concFrame
    \/ k_return /\ UNCHANGED concFrame

InitConc ==
    /\ ConcInit
    /\ MergeIdle
    /\ HttpIdle
    /\ SweepIdle
    /\ TmplIdle
    /\ FmuIdle

SpecConc == InitConc /\ [][ConcNext]_vars

\* C5: under every interleaving of a clear() with a concurrent add_result(),
\* once both have returned, the token add_result returned either resolves
\* through get_result or is in the removed list of clear: no result is stored
\* in a discarded state, or dropped without being reported.
C5_NoOrphanedResult ==
    (k_ret.returned /\ a_pc = "idle" /\ k_pc = "idle") =>
        \A token \in a_rets :
            \/ heap_get_result(token) # NoArtifact
            \/ \E i \in 1..Len(k_ret.removed) : k_ret.removed[i] = token

----------------------------------------------------------------------------
(* SpecHttp: requests to the handlers of routes.py, and to the download
   handler of app.py, one request at a time *)

MaxClock == 1       \* seconds that pass in one behaviour

\* cfg.upload_dir, resolved
UploadDir == "uploads"

\* the resolved path lies in the upload root
in_upload_dir(path) == path.dir = UploadDir

\* what class SessionStore defines (storage.py 21-87)
SessionStoreAttrs ==
    {"_state", "fmu_token", "fmu_name", "fmu_bytes", "input_token", "input_name",
     "input_bytes", "result_tokens", "set_fmu", "set_input", "add_result",
     "get_result", "clear"}

\* store.<attr> raises AttributeError: the class defines no such attribute
AttributeError(attr) == attr \notin SessionStoreAttrs

\* files found on the disk when the server starts: a model in the upload root,
\* a model in a sibling directory, a file elsewhere
DiskAtStart ==
    {Path(UploadDir, "old.fmu", 0), Path("uploads_evil", "old.fmu", 0),
     Path("srv", "other", 0)}

\* a file name that `kind` marks as written by a handler of routes.py:
\* <timestamp>_<name>.fmu, <timestamp>_<name>.csv, result_<timestamp>.csv
written_by_handler(path) == path.kind \in {"fmu", "csv", "result"}

\* the `fmu` field of run requests
RequestModels ==
    {NoPath, Path(UploadDir, "old.fmu", 0), Path("uploads_evil", "old.fmu", 0),
     Path(UploadDir, "missing", 0)}

\* the `input_file` field of run requests
RequestInputFiles ==
    {NoPath, Path(UploadDir, "csv", 0), Path("srv", "other", 0),
     Path(UploadDir, "missing", 0)}

\* the `path` argument of download requests
RequestPaths ==
    {NoPath, Path(UploadDir, "old.fmu", 0), Path("uploads_evil", "old.fmu", 0),
     Path("srv", "other", 0), Path(UploadDir, "csv", 0), Path(UploadDir, "missing", 0)}

\* the `inputs` field of run requests: absent, numeric, not numeric
RequestInputs ==
    {<<>>,
     <<[name |-> 1, samples |-> <<[t |-> Num(Time(0, 0)), v |-> Text(5)]>>]>>,
     <<[name |-> 1, samples |-> <<[t |-> Num(Time(0, 0)), v |-> BadText]>>]>>}

HttpInit ==
    /\ disk = DiskAtStart
    /\ clock = 0
    /\ engine_call = NoEngineCall
    /\ sent = NoPath
    /\ resp = NoResponse
    /\ calls = <<>>

Response(handler, status, error) ==
    [NoResponse EXCEPT !.handler = handler, !.status = status, !.error = error]

\* an exception leaves the handler: Flask answers 500 Internal Server Error
Unhandled(handler) == Response(handler, 500, "Internal Server Error")

\* time passes
Tick ==
    /\ clock < MaxClock
    /\ clock' = clock + 1
    /\ UNCHANGED <<storeVars, disk, engine_call, sent, resp, calls>>

\* POST /api/clear-session
clear_session ==
    /\ clear
    /\ resp' = [Response("clear_session", 200, "none") EXCEPT
                   !.removed = clear_result(state).removed,
                   !.errors = clear_result(state).errors]
    /\ engine_call' = NoEngineCall
    /\ sent' = NoPath
    /\ calls' = <<>>
    /\ UNCHANGED <<disk, clock>>

\* a call of a collaborator: its path argument, whether it raised, what it
\* returned or the message of what it raised, and the log lines it added
Call(fn, arg, raised, ret, lines) ==
    [fn |-> fn, arg |-> arg, raised |-> raised, ret |-> ret, lines |-> lines]

\* store.<attr>(arg): raises when SessionStore defines no such attribute
store_call(attr, arg) ==
    IF AttributeError(attr) THEN Call(attr, arg, TRUE, "AttributeError", <<>>)
    ELSE Call(attr, arg, FALSE, "ok", <<>>)

\* the list `logs` after the calls cs
RECURSIVE call_lines(_)
call_lines(cs) ==
    IF cs = <<>> THEN <<>>
    ELSE call_lines(SubSeq(cs, 1, Len(cs) - 1)) \o cs[Len(cs)].lines

\* fn is among the calls cs
called(cs, fn) == \E i \in 1..Len(cs) : cs[i].fn = fn

\* an upload that also clears the session when generate_template raises
upload_clears_on_failure(clear_first, file, template_ok) ==
    clear_first \/ (file = "m.fmu" /\ ~template_ok)

\* lines 65-68: the session is cleared when the form field clearFirst is
\* "true", before the file of the request is looked at
upload_clears(clear_first, file, template_ok) == clear_first

\* POST /api/upload-fmu.  file: "none" (no file part), "" (empty filename),
\* "m.txt", "m.fmu"; template_ok: generate_template does not raise
upload_fmu(clear_first, file, template_ok) ==
    LET fmu_path == Path(UploadDir, "fmu", clock)
        saved == Call("save", fmu_path, FALSE, "ok", <<>>)
        tmpl == IF template_ok
                THEN Call("generate_template", fmu_path, FALSE, "ok", <<>>)
                ELSE Call("generate_template", fmu_path, TRUE, "template error", <<>>)
        try == IF template_ok
               THEN <<saved, tmpl, store_call("set_fmu_path", fmu_path)>>
               ELSE <<saved, tmpl>>
        raised == try[Len(try)].raised
    IN
    /\ IF upload_clears(clear_first, file, template_ok) THEN clear ELSE UNCHANGED storeVars
    /\ engine_call' = NoEngineCall
    /\ sent' = NoPath
    /\ UNCHANGED clock
    /\ IF file = "none" THEN
            /\ resp' = Response("upload_fmu", 400, "No file")
            /\ calls' = <<>>
            /\ UNCHANGED disk
       ELSE IF file = "" THEN
            /\ resp' = Response("upload_fmu", 400, "No file selected")
            /\ calls' = <<>>
            /\ UNCHANGED disk
       ELSE IF file # "m.fmu" THEN
            /\ resp' = Response("upload_fmu", 400, "Only .fmu files allowed")
            /\ calls' = <<>>
            /\ UNCHANGED disk
       ELSE IF raised THEN
            \* the except block unlinks the saved file
            /\ calls' = Append(try, Call("unlink", fmu_path, FALSE, "ok", <<>>))
            /\ disk' = disk \ {fmu_path}
            /\ resp' = Response("upload_fmu", 500, try[Len(try)].ret)
       ELSE /\ calls' = try
            /\ disk' = disk \cup {fmu_path}
            /\ resp' = [Response("upload_fmu", 200, "none") EXCEPT !.path = fmu_path]

\* POST /api/upload-input.  file: "none", "", "x.txt", "x.csv"
upload_input_file(file) ==
    LET input_path == Path(UploadDir, "csv", clock)
        try == <<Call("save", input_path, FALSE, "ok", <<>>),
                 store_call("set_input_file", input_path)>>
    IN
    /\ engine_call' = NoEngineCall
    /\ sent' = NoPath
    /\ UNCHANGED <<storeVars, clock>>
    /\ IF file = "none" THEN
            /\ resp' = Response("upload_input_file", 400, "No file")
            /\ calls' = <<>>
            /\ UNCHANGED disk
       ELSE IF file = "" THEN
            /\ resp' = Response("upload_input_file", 400, "No file selected")
            /\ calls' = <<>>
            /\ UNCHANGED disk
       ELSE IF file # "x.csv" THEN
            /\ resp' = Response("upload_input_file", 400, "Only .csv files allowed")
            /\ calls' = <<>>
            /\ UNCHANGED disk
       ELSE /\ calls' = try
            /\ disk' = disk \cup {input_path}
            /\ resp' = IF try[Len(try)].raised
                       THEN Response("upload_input_file", 500, try[Len(try)].ret)
                       ELSE [Response("upload_input_file", 200, "none") EXCEPT
                                !.path = input_path]

\* Path(fmu_path).parent / f"result_{ts}.csv", ts the time in whole seconds
out_csv(fmu_path, now) == Path(fmu_path.dir, "result", now)

\* what the try block does without lines 179-192: the engine is called
\* whatever the platforms of the model
run_try_unchecked(fmu_path, debug_logging, env, now) ==
    LET validated == Call("validate_if_enabled", fmu_path, env.outcome = "invalid",
                          IF env.outcome = "invalid" THEN "validation error"
                          ELSE IF env.problems THEN "problems" ELSE "none",
                          IF env.problems /\ env.outcome # "invalid"
                          THEN <<"problem">> ELSE <<>>)
        simulated == Call("simulate_fmu", fmu_path, env.outcome # "ok",
                          IF env.outcome = "ok" THEN "ok"
                          ELSE IF env.outcome = "raise_twincat" THEN "TwinCAT engine error"
                          ELSE "engine error",
                          IF debug_logging THEN <<"[FMI]">> ELSE <<>>)
        written == Call("to_csv", out_csv(fmu_path, now), FALSE, "ok", <<>>)
    IN IF env.outcome = "invalid" THEN <<validated>>
       ELSE IF env.outcome # "ok" THEN <<validated, simulated>>
       ELSE <<validated, simulated, written,
              store_call("add_result_file", out_csv(fmu_path, now))>>

\* the try block of run_simulation, lines 171-201: the calls it makes.
\* env.problems: validate_fmu reports problems; env.outcome: validate_fmu
\* raises ("invalid"), can_simulate is false ("platform"), simulate_fmu raises
\* ("raise", with TwinCAT in the message "raise_twincat") or returns ("ok")
run_try(fmu_path, debug_logging, env, now) ==
    LET validated == Call("validate_if_enabled", fmu_path, env.outcome = "invalid",
                          IF env.outcome = "invalid" THEN "validation error"
                          ELSE IF env.problems THEN "problems" ELSE "none",
                          IF env.problems /\ env.outcome # "invalid"
                          THEN <<"problem">> ELSE <<>>)
        rejected == Call("platform_supports_fmu", fmu_path, FALSE, "False",
                         <<"FMU platforms", "Host platform">>)
        supported == Call("platform_supports_fmu", fmu_path, FALSE, "True", <<>>)
        simulated == Call("simulate_fmu", fmu_path, env.outcome # "ok",
                          IF env.outcome = "ok" THEN "ok"
                          ELSE IF env.outcome = "raise_twincat" THEN "TwinCAT engine error"
                          ELSE "engine error",
                          IF debug_logging THEN <<"[FMI]">> ELSE <<>>)
        written == Call("to_csv", out_csv(fmu_path, now), FALSE, "ok", <<>>)
    IN IF env.outcome = "invalid" THEN <<validated>>
       ELSE IF env.outcome = "platform" THEN <<validated, rejected>>
       ELSE IF env.outcome # "ok" THEN <<validated, supported, simulated>>
       ELSE <<validated, supported, simulated, written,
              store_call("add_result_file", out_csv(fmu_path, now))>>

\* a response to a failed run that leaves the logs out
run_response_without_logs(cs) ==
    LET lastc == cs[Len(cs)]
    IN IF lastc.raised THEN Response("run_simulation", 500, lastc.ret)
       ELSE IF lastc.fn = "platform_supports_fmu"
       THEN Response("run_simulation", 400, "platform")
       ELSE [Response("run_simulation", 200, "none") EXCEPT
                !.logs = call_lines(cs),
                !.path = cs[CHOOSE i \in 1..Len(cs) : cs[i].fn = "to_csv"].arg]

\* the response of run_simulation after the calls cs of its try block: lines
\* 214-223 when the last call raised, 181-192 when the platform check failed,
\* 203-212 otherwise
run_response(cs) ==
    LET lastc == cs[Len(cs)]
        logs == call_lines(cs)
    IN IF lastc.raised
       THEN [Response("run_simulation", 500, lastc.ret) EXCEPT
                !.logs = IF lastc.ret = "TwinCAT engine error"
                         THEN Append(logs, "Hint") ELSE logs]
       ELSE IF lastc.fn = "platform_supports_fmu"
       THEN [Response("run_simulation", 400, "platform") EXCEPT !.logs = logs]
       ELSE [Response("run_simulation", 200, "none") EXCEPT
                !.logs = logs,
                !.path = cs[CHOOSE i \in 1..Len(cs) : cs[i].fn = "to_csv"].arg]

\* a filter of the keyword arguments that also drops the start values that
\* are None
kwargs_start_values_set(payload) ==
    [payload.start_values EXCEPT
        !.dict = SelectSeq(@, LAMBDA item : item.value.kind # "none")]

\* kwargs["start_values"] after line 169: payload.get("start_values"), left
\* out when it is None
kwargs_start_values(payload) == payload.start_values

\* POST /api/run.  payload: the fields fmu, input_file, inputs, debug_logging
\* and start_values of the request; env: what the collaborators do
run_simulation(payload, env) ==
    LET fmu_path == payload.fmu
        signals == build_structured_input(payload.inputs)
        try == run_try(fmu_path, payload.debug_logging, env, clock)
        call == [called |-> TRUE, filename |-> fmu_path, input_file |-> payload.input_file,
                 input |-> payload.input_file = NoPath /\ signals.kind = "table",
                 start_values |-> kwargs_start_values(payload)]
    IN
    /\ sent' = NoPath
    /\ UNCHANGED <<storeVars, clock>>
    /\ IF payload.fmu = NoPath THEN
            \* payload.get("fmu") or store.fmu_path
            /\ AttributeError("fmu_path")
            /\ resp' = Unhandled("run_simulation")
            /\ calls' = <<>>
            /\ UNCHANGED <<disk, engine_call>>
       ELSE IF fmu_path \notin disk THEN
            /\ resp' = Response("run_simulation", 400, "FMU not found. Upload first.")
            /\ calls' = <<>>
            /\ UNCHANGED <<disk, engine_call>>
       ELSE IF signals.kind = "error" THEN
            \* line 139, before the try block: float() raises ValueError
            /\ resp' = Unhandled("run_simulation")
            /\ calls' = <<Call("build_structured_input", NoPath, TRUE, "ValueError", <<>>)>>
            /\ UNCHANGED <<disk, engine_call>>
       ELSE IF payload.input_file # NoPath /\ payload.input_file \notin disk THEN
            /\ resp' = Response("run_simulation", 400, "Input file not found. Upload again.")
            /\ calls' = <<>>
            /\ UNCHANGED <<disk, engine_call>>
       ELSE /\ calls' = try
            /\ engine_call' = IF called(try, "simulate_fmu") THEN call ELSE NoEngineCall
            /\ disk' = IF called(try, "to_csv") THEN disk \cup {out_csv(fmu_path, clock)}
                       ELSE disk
            /\ resp' = run_response(try)

\* GET /api/download of routes.py: store.result_files raises
download(path) ==
    /\ engine_call' = NoEngineCall
    /\ sent' = NoPath
    /\ calls' = <<>>
    /\ UNCHANGED <<storeVars, disk, clock>>
    /\ IF path = NoPath THEN
            resp' = Response("download", 404, "File not found")
       ELSE /\ AttributeError("result_files")
            /\ resp' = Unhandled("download")

\* GET /api/download of app.py
app_download(path) ==
    /\ engine_call' = NoEngineCall
    /\ calls' = <<>>
    /\ UNCHANGED <<storeVars, disk, clock>>
    /\ IF path = NoPath \/ path \notin disk THEN
            /\ resp' = Response("app_download", 404, "File not found")
            /\ sent' = NoPath
       ELSE /\ resp' = Response("app_download", 200, "none")
            /\ sent' = path

RunPayloads ==
    [fmu : RequestModels, input_file : RequestInputFiles, inputs : RequestInputs,
     debug_logging : BOOLEAN, start_values : {NoStartValues}]
RunEnvs ==
    [problems : BOOLEAN, outcome : {"invalid", "platform", "raise", "raise_twincat", "ok"}]

\* the request gets as far as the try block of run_simulation
reaches_try(payload) ==
    /\ payload.fmu \in disk
    /\ build_structured_input(payload.inputs).kind # "error"
    /\ payload.input_file = NoPath \/ payload.input_file \in disk

\* the collaborators matter to a request only once it has reached the try block
RunEnvsOf(payload) ==
    IF reaches_try(payload) THEN RunEnvs ELSE {[problems |-> FALSE, outcome |-> "ok"]}

\* the response has been sent and the request is over: what is known of it
\* (its response, the calls it made) is dropped
Respond ==
    /\ resp # NoResponse
    /\ resp' = NoResponse
    /\ engine_call' = NoEngineCall
    /\ sent' = NoPath
    /\ calls' = <<>>
    /\ UNCHANGED <<storeVars, disk, clock>>

\* no request is being served: the next one can be taken up
Ready == resp = NoResponse

HttpNext ==
    \/ Tick /\ UNCHANGED <<mergeVars, concVars, sweepVars, tmplVars, fmuVars>>
    \/ Respond /\ UNCHANGED <<mergeVars, concVars, sweepVars, tmplVars, fmuVars>>
    \/ (Ready /\ clear_session) /\ UNCHANGED <<mergeVars, concVars, sweepVars, tmplVars, fmuVars>>
    \/ (\E clear_first \in BOOLEAN, file \in {"none", "", "m.txt", "m.fmu"},
           template_ok \in BOOLEAN : Ready /\ upload_fmu(clear_first, file, template_ok))
            /\ UNCHANGED <<mergeVars, concVars, sweepVars, tmplVars, fmuVars>>
    \/ (\E file \in {"none", "", "x.txt", "x.csv"} : Ready /\ upload_input_file(file))
            /\ UNCHANGED <<mergeVars, concVars, sweepVars, tmplVars, fmuVars>>
    \/ (\E payload \in RunPayloads : \E env \in RunEnvsOf(payload) :
            Ready /\ run_simulation(payload, env))
            /\ UNCHANGED <<mergeVars, concVars, sweepVars, tmplVars, fmuVars>>
    \/ (\E path \in RequestPaths : Ready /\ download(path))
            /\ UNCHANGED <<mergeVars, concVars, sweepVars, tmplVars, fmuVars>>
    \/ (\E path \in RequestPaths : Ready /\ app_download(path))
            /\ UNCHANGED <<mergeVars, concVars, sweepVars, tmplVars, fmuVars>>

InitHttp ==
    /\ StoreInit
    /\ MergeIdle
    /\ ConcIdle
    /\ HttpInit
    /\ SweepIdle
    /\ TmplIdle
    /\ FmuIdle

SpecHttp == InitHttp /\ [][HttpNext]_vars

\* C3: no download serves a file whose resolved path lies outside the upload
\* root, even when the file exists; such a request is answered with an error.
C3_DownloadStaysInRoot ==
    sent # NoPath => in_upload_dir(sent)

\* C4: run_simulation hands the engine no model path and no input_file that
\* lies outside the upload root and writes no result file outside it; a
\* request carrying such a path is rejected before the engine is invoked.
C4_RunStaysInRoot ==
    /\ engine_call.called =>
        /\ in_upload_dir(engine_call.filename)
        /\ engine_call.input_file # NoPath => in_upload_dir(engine_call.input_file)
    /\ \A path \in disk : path.kind = "result" => in_upload_dir(path)

\* C9: clear leaves the session empty, reports as removed exactly the tokens
\* that were live, each once, and removes every artifact of the session, the
\* files that upload and run wrote to the upload directory included.
C9_ClearRemovesEverything ==
    resp.handler = "clear_session" =>
        /\ state = SessionState
        /\ resp.removed = clear_removed(last.pre)
        /\ resp.errors = <<>>
        /\ \A path \in disk : in_upload_dir(path) => ~written_by_handler(path)

\* C12: every write returns a token that differs from the token of every
\* earlier write of the process, also when both are made within one clock
\* second.  On disk the token of an artifact is its path: no handler saves
\* an upload or writes a result under the path of a file that exists.
C12_WritesNeverReuseAToken ==
    [][clock' = clock =>
          \A i \in 1..Len(calls') :
              calls'[i].fn \in {"save", "to_csv"} => calls'[i].arg \notin disk]_vars

\* C13: a run requested while the session holds no primary artifact fails
\* with an error; the engine is not invoked and no result artifact is added.
C13_NoRunWithoutPrimary ==
    (resp.handler = "run_simulation" /\ state.fmu_token = None) =>
        /\ resp.status >= 400
        /\ ~engine_call.called
        /\ ~called(calls, "simulate_fmu")
        /\ ~called(calls, "to_csv")
        /\ ~called(calls, "add_result_file")

\* C14: when a run request names an input_file, the engine is invoked only if
\* the session holds an auxiliary artifact that the reference resolves to;
\* otherwise the run fails before the engine is invoked and no result is
\* written.
C14_InputFileMustBeStored ==
    (resp.handler = "run_simulation" /\ engine_call.input_file # NoPath) =>
        /\ engine_call.called => state.input_token # None
        /\ state.input_token = None =>
              (resp.status >= 400 /\ ~called(calls, "to_csv"))

\* the engine was invoked and raised
engine_raised(cs) ==
    \E i \in 1..Len(cs) : cs[i].fn = "simulate_fmu" /\ cs[i].raised

\* the engine was invoked and returned a result
engine_returned(cs) ==
    \E i \in 1..Len(cs) : cs[i].fn = "simulate_fmu" /\ ~cs[i].raised

\* the list b starts with the list a
is_prefix(a, b) == Len(a) <= Len(b) /\ SubSeq(b, 1, Len(a)) = a

\* C15: when the simulation engine raises during a run, the session's
\* primary, auxiliary and result artifacts are exactly what they were before
\* the run, no result file is written, and the response carries the engine's
\* error message together with every log line accumulated up to the failure.
C15_EngineFailureKeepsSession ==
    /\ []((resp.handler = "run_simulation" /\ engine_raised(calls)) =>
            /\ resp.status = 500
            /\ resp.error = calls[Len(calls)].ret
            /\ calls[Len(calls)].fn = "simulate_fmu"
            /\ is_prefix(call_lines(calls), resp.logs)
            /\ ~called(calls, "to_csv")
            /\ ~called(calls, "add_result_file"))
    /\ [][(resp'.handler = "run_simulation" /\ engine_raised(calls')) =>
            (state' = state /\ disk' = disk)]_vars

\* the engine raised in a run that had logged a validation problem and a line
\* of the FMI call logger, on a disk that holds the result of an earlier run
C15_Witness ==
    /\ resp.handler = "run_simulation"
    /\ engine_raised(calls)
    /\ Len(call_lines(calls)) = 2
    /\ Len(resp.logs) = 3
    /\ \E path \in disk : path.kind = "result"

\* C16: after a run in which the engine succeeds, the result is a new result
\* artifact of the session store, and the response is a success that names
\* the token under which get_result / download find it.
C16_SuccessfulRunStoresResult ==
    (resp.handler = "run_simulation" /\ engine_returned(calls)) =>
        /\ resp.status = 200
        /\ resp.path # NoPath
        /\ Len(state.result_blobs) > 0

\* C17: in every run the platform check precedes the engine call: the engine
\* is invoked only after platform_supports_fmu returned True, and when it
\* returns False the run answers with the platform error and the logs
\* (validation problems, then the platform lines), the engine is not invoked,
\* and no result is written or stored.
C17_PlatformCheckBeforeEngine ==
    /\ [](resp.handler = "run_simulation" =>
            /\ \A i \in 1..Len(calls) :
                   calls[i].fn = "simulate_fmu" =>
                       \E j \in 1..(i - 1) :
                           calls[j].fn = "platform_supports_fmu" /\ calls[j].ret = "True"
            /\ engine_call.called => called(calls, "platform_supports_fmu")
            /\ (\E j \in 1..Len(calls) :
                    calls[j].fn = "platform_supports_fmu" /\ calls[j].ret = "False") =>
                   /\ resp.status = 400
                   /\ resp.error = "platform"
                   /\ resp.logs = call_lines(calls)
                   /\ ~engine_call.called
                   /\ ~called(calls, "simulate_fmu")
                   /\ ~called(calls, "to_csv")
                   /\ ~called(calls, "add_result_file"))
    /\ [][(resp'.handler = "run_simulation" /\ resp'.error = "platform") =>
            (state' = state /\ disk' = disk)]_vars

\* a run of a model that validation had a problem with was rejected by the
\* platform check
C17_Witness ==
    /\ resp.handler = "run_simulation"
    /\ resp.error = "platform"
    /\ calls[Len(calls)].ret = "False"
    /\ resp.logs = <<"problem", "FMU platforms", "Host platform">>

\* a request whose only sample has the value x
one_sample(x) == <<[name |-> 1, samples |-> <<[t |-> Num(Time(0, 0)), v |-> x]>>]>>

\* C22: a schedule whose time or value is numeric text is accepted and
\* converted, a non-numeric one makes the merge fail with an error, and a run
\* carrying such a schedule reports that error as invalid input, does not
\* invoke the engine and leaves the session unchanged.
C22_InvalidInputIsReported ==
    /\ build_structured_input(one_sample(Text(5))) = build_structured_input(one_sample(Num(5)))
    /\ build_structured_input(one_sample(BadText)) = MergeError
    /\ (resp.handler = "run_simulation"
          /\ \E i \in 1..Len(calls) :
                 calls[i].fn = "build_structured_input" /\ calls[i].raised) =>
           /\ resp.status >= 400
           /\ resp.error = calls[Len(calls)].ret
           /\ ~engine_call.called
           /\ state = SessionState

----------------------------------------------------------------------------
(* SpecSweep: the upload directory is filled with entries, then
   startup_cleanup sweeps it once.  Times are whole hours. *)

MaxEntries == 2     \* direct entries of the upload directory
MaxHours == 2       \* modification times, "now" and max_age_hours are 0..MaxHours

\* a direct entry of the directory.  stat, unlink: what file_path.stat() and
\* file_path.unlink() do ("ok", or raise "OSError"); inside: the files nested
\* in a subdirectory
Entry(name, kind, mtime, stat, unlink, inside) ==
    [name |-> name, kind |-> kind, mtime |-> mtime, stat |-> stat, unlink |-> unlink,
     inside |-> inside]

\* the entries a directory can hold under a name
Entries(name) ==
    {Entry(name, "file", mtime, stat, unlink, 0) :
        mtime \in 0..MaxHours, stat \in {"ok", "OSError"}, unlink \in {"ok", "OSError"}}
    \cup {Entry(name, "dir", mtime, "ok", "ok", inside) :
        mtime \in 0..MaxHours, inside \in 0..1}

\* file_path.is_file()
is_file(e) == e.kind = "file"

\* a cutoff test that also takes the files modified exactly at the cutoff
is_old_or_at_cutoff(e, cutoff) == e.mtime <= cutoff

\* file_mtime < cutoff
is_old(e, cutoff) == e.mtime < cutoff

\* the loop of cleanup_old_files from entry i on: the entries kept so far and
\* removed_count
RECURSIVE cleanup_loop(_, _, _, _, _)
cleanup_loop(entries, cutoff, i, kept, removed_count) ==
    IF i > Len(entries) THEN [entries |-> kept, removed_count |-> removed_count]
    ELSE LET file_path == entries[i]
         IN IF ~is_file(file_path)
            THEN cleanup_loop(entries, cutoff, i + 1, Append(kept, file_path), removed_count)
            ELSE IF file_path.stat = "OSError"
            THEN cleanup_loop(entries, cutoff, i + 1, Append(kept, file_path), removed_count)
            ELSE IF ~is_old(file_path, cutoff)
            THEN cleanup_loop(entries, cutoff, i + 1, Append(kept, file_path), removed_count)
            ELSE IF file_path.unlink = "OSError"
            THEN cleanup_loop(entries, cutoff, i + 1, Append(kept, file_path), removed_count)
            ELSE cleanup_loop(entries, cutoff, i + 1, kept, removed_count + 1)

\* cleanup_old_files(upload_dir, max_age_hours) called at time now: the
\* directory afterwards and the return value
cleanup_old_files(upload_dir, max_age_hours, now) ==
    IF ~upload_dir.exists THEN [dir |-> upload_dir, removed_count |-> 0]
    ELSE LET cutoff == now - max_age_hours
             done == cleanup_loop(upload_dir.entries, cutoff, 1, <<>>, 0)
         IN [dir |-> [upload_dir EXCEPT !.entries = done.entries],
             removed_count |-> done.removed_count]

\* the upload directory is created
mkdir ==
    /\ ~swept.done
    /\ ~dir_entries.exists
    /\ dir_entries' = [exists |-> TRUE, entries |-> <<>>]
    /\ UNCHANGED swept

\* an entry appears in the upload directory
touch(e) ==
    /\ ~swept.done
    /\ dir_entries.exists
    /\ Len(dir_entries.entries) < MaxEntries
    /\ dir_entries' = [dir_entries EXCEPT !.entries = Append(@, e)]
    /\ UNCHANGED swept

\* startup_cleanup(), with cfg.max_upload_age_hours = max_age_hours
startup_cleanup(max_age_hours, now) ==
    LET removed == cleanup_old_files(dir_entries, max_age_hours, now)
    IN /\ ~swept.done
       /\ dir_entries' = removed.dir
       /\ swept' = [done |-> TRUE, now |-> now, max_age_hours |-> max_age_hours,
                    before |-> dir_entries, removed_count |-> removed.removed_count]

sweepFrame == <<storeVars, mergeVars, concVars, httpVars, tmplVars, fmuVars>>

SweepNext ==
    \/ mkdir /\ UNCHANGED sweepFrame
    \/ (\E e \in Entries(Len(dir_entries.entries) + 1) : touch(e)) /\ UNCHANGED sweepFrame
    \/ (\E max_age_hours \in 0..MaxHours, now \in 0..MaxHours :
            startup_cleanup(max_age_hours, now)) /\ UNCHANGED sweepFrame

InitSweep ==
    /\ StoreInit
    /\ MergeIdle
    /\ ConcIdle
    /\ HttpIdle
    /\ SweepIdle
    /\ TmplIdle
    /\ FmuIdle

SpecSweep == InitSweep /\ [][SweepNext]_vars

\* the entries of a directory, as a set
entry_set(dir) == {dir.entries[i] : i \in 1..Len(dir.entries)}

\* C24: cleanup_old_files deletes only direct file entries whose modification
\* time is strictly older than now minus max_age (never a directory, a nested
\* file or a younger file); an entry whose stat or delete fails is skipped and
\* the scan goes on; the count returned is the number of files deleted, and 0
\* when the directory does not exist.
C24_SweepDeletesOnlyOldFiles ==
    swept.done =>
        LET before == entry_set(swept.before)
            after == entry_set(dir_entries)
            cutoff == swept.now - swept.max_age_hours
        IN /\ after \subseteq before
           /\ dir_entries.exists = swept.before.exists
           /\ \A e \in before \ after : e.kind = "file" /\ e.mtime < cutoff
           /\ \A e \in before : e.kind = "dir" \/ e.mtime >= cutoff => e \in after
           /\ \A e \in before : e.stat = "OSError" \/ e.unlink = "OSError" => e \in after
           /\ \A e \in before :
                (e.kind = "file" /\ e.mtime < cutoff /\ e.stat = "ok" /\ e.unlink = "ok")
                    => e \notin after
           /\ swept.removed_count = Cardinality(before \ after)
           /\ ~swept.before.exists => swept.removed_count = 0

\* a sweep skipped a file it could not delete and deleted the old file after
\* it
C24_Witness ==
    /\ swept.done
    /\ swept.removed_count = 1
    /\ Len(swept.before.entries) = 2
    /\ swept.before.entries[1].kind = "file"
    /\ swept.before.entries[1].stat = "ok"
    /\ swept.before.entries[1].unlink = "OSError"
    /\ swept.before.entries[1].mtime < swept.now - swept.max_age_hours
    /\ dir_entries.entries = <<swept.before.entries[1]>>

----------------------------------------------------------------------------
(* SpecTemplate: a model is uploaded whose description declares the
   variables md; generate_template builds the configuration template, and
   the client posts it back unmodified as a run request. *)

\* a variable without a start attribute
NoStart == [kind |-> "none", val |-> 0]

\* the causalities a variable can declare
Causalities == {"parameter", "calculatedParameter", "input", "output", "independent", "local"}

\* a variable of md.modelVariables; its start is None or the string of the
\* attribute, which may spell a number ("5") or not ("true")
ModelVariables(name) ==
    [name : {name}, causality : Causalities, start : {NoStart, Text(5), BadText}]

\* summarize_variables: the loop over md.modelVariables from variable i on
RECURSIVE summarize_loop(_, _, _, _)
summarize_loop(mvs, i, seen, groups) ==
    IF i > Len(mvs) THEN groups
    ELSE LET var == mvs[i]
             entry == [name |-> var.name, causality |-> var.causality, start |-> var.start]
         IN IF var.name \in seen THEN summarize_loop(mvs, i + 1, seen, groups)
            ELSE summarize_loop(mvs, i + 1, seen \cup {var.name},
                    IF var.causality = "parameter"
                    THEN [groups EXCEPT !.parameters = Append(@, entry)]
                    ELSE IF var.causality = "input"
                    THEN [groups EXCEPT !.inputs = Append(@, entry)]
                    ELSE IF var.causality = "output"
                    THEN [groups EXCEPT !.outputs = Append(@, entry)]
                    ELSE IF var.causality = "independent"
                    THEN [groups EXCEPT !.independent = Append(@, entry)]
                    ELSE groups)

\* summarize_variables(md)
summarize_variables(mvs) ==
    summarize_loop(mvs, 1, {},
        [parameters |-> <<>>, inputs |-> <<>>, outputs |-> <<>>, independent |-> <<>>])

\* a dict of the parameters that leaves out those without a start value
RECURSIVE start_values_of_started(_)
start_values_of_started(params) ==
    IF params = <<>> THEN <<>>
    ELSE LET p == params[Len(params)]
             d == start_values_of_started(SubSeq(params, 1, Len(params) - 1))
         IN IF p.start = NoStart THEN d ELSE dict_setitem(d, p.name, p.start)

\* {p["name"]: p["start"] for p in params}
RECURSIVE start_values_of(_)
start_values_of(params) ==
    IF params = <<>> THEN <<>>
    ELSE LET p == params[Len(params)]
         IN dict_setitem(start_values_of(SubSeq(params, 1, Len(params) - 1)),
                         p.name, p.start)

\* input_schedules: [name, [[0.0, start]]] for an input with a start value,
\* [name, []] for one without
input_schedules(inputs) ==
    [i \in 1..Len(inputs) |->
        [name |-> inputs[i].name,
         samples |-> IF inputs[i].start # NoStart
                     THEN <<[t |-> Num(Time(0, 0)), v |-> inputs[i].start]>>
                     ELSE <<>>]]

\* generate_template(fmu_path)["config"], for a model whose description
\* declares mvs
generate_template(fmu_path, mvs) ==
    LET groups == summarize_variables(mvs)
    IN [generated |-> TRUE,
        fmu |-> fmu_path,
        start_values |-> start_values_of(groups.parameters),
        inputs |-> input_schedules(groups.inputs),
        input_file |-> NoPath,
        validate |-> TRUE,
        debug_logging |-> TRUE]

\* the run request a client makes of the template, unmodified
template_payload(cfg) ==
    [fmu |-> cfg.fmu, input_file |-> cfg.input_file, inputs |-> cfg.inputs,
     debug_logging |-> cfg.debug_logging, start_values |-> StartValues(cfg.start_values)]

\* the names md declares
declared(mvs) == {mvs[i].name : i \in 1..Len(mvs)}

\* the model description declares one more variable, under a name of its own
Declare(var) ==
    /\ ~template.generated
    /\ var.name \notin declared(md)
    /\ md' = Append(md, var)
    /\ UNCHANGED <<template, storeVars, httpVars>>

\* the model is uploaded: generate_template reads its description
Generate ==
    /\ ~template.generated
    /\ template' = generate_template(Path(UploadDir, "old.fmu", 0), md)
    /\ UNCHANGED <<md, storeVars, httpVars>>

\* the template is posted to /api/run
RunTemplate(env) ==
    /\ template.generated
    /\ Ready
    /\ run_simulation(template_payload(template), env)
    /\ UNCHANGED tmplVars

tmplFrame == <<mergeVars, concVars, sweepVars, fmuVars>>

TemplateNext ==
    \/ (\E name \in Names : \E var \in ModelVariables(name) : Declare(var))
            /\ UNCHANGED tmplFrame
    \/ Generate /\ UNCHANGED tmplFrame
    \/ (\E env \in RunEnvsOf(template_payload(template)) : RunTemplate(env))
            /\ UNCHANGED tmplFrame

InitTemplate ==
    /\ StoreInit
    /\ MergeIdle
    /\ ConcIdle
    /\ HttpInit
    /\ SweepIdle
    /\ TmplIdle
    /\ FmuIdle

SpecTemplate == InitTemplate /\ [][TemplateNext]_vars

\* the names md declares with causality parameter
declared_parameters(mvs) ==
    {mvs[i].name : i \in {j \in 1..Len(mvs) : mvs[j].causality = "parameter"}}

\* the keys of a dict, as a set
key_set(d) == {d[i].key : i \in 1..Len(d)}

\* C25: the keys of start_values in the template generate_template produces
\* are the names of the declared variables of causality parameter, and when
\* the template is submitted unmodified to a run, the start_values passed to
\* the engine have the same keys: no parameter is dropped or renamed.
C25_TemplateKeepsParameters ==
    /\ template.generated =>
            key_set(template.start_values) = declared_parameters(md)
    /\ engine_call.called =>
            /\ engine_call.start_values.given
            /\ key_set(engine_call.start_values.dict) = declared_parameters(md)
            /\ Len(engine_call.start_values.dict) = Cardinality(declared_parameters(md))

\* the engine was called with the template of a model that declares a
\* parameter without a start value beside another variable
C25_Witness ==
    /\ engine_call.called
    /\ Len(md) = 2
    /\ \E i \in 1..Len(md) : md[i].causality = "parameter" /\ md[i].start = NoStart
    /\ \E i \in 1..Len(md) : md[i].causality # "parameter"

----------------------------------------------------------------------------
(* SpecFmu: two request threads share the store.  One calls set_fmu.  The
   other runs the model of the session: it reads the primary and the
   auxiliary token through the properties, and when the engine is done it
   calls add_result.  The store takes no lock; set_fmu assigns the fields
   of the SessionState object one statement at a time. *)

\* set_fmu(name, data) is called
f_call(name, data) ==
    /\ f_pc = "idle"
    /\ ~f_ret.returned
    /\ f_loc' = [NoFrame EXCEPT !.name = name, !.data = data]
    /\ f_pc' = "new_token"
    /\ UNCHANGED <<c_objs, c_dicts, c_self, nextToken, f_ret>>

\* token = _new_token()
f_new_token ==
    /\ f_pc = "new_token"
    /\ nextToken' = new_token(nextToken)
    /\ f_loc' = [f_loc EXCEPT !.token = new_token(nextToken)]
    /\ f_pc' = "fmu_token"
    /\ UNCHANGED <<c_objs, c_dicts, c_self, f_ret>>

\* self._state.fmu_token = token
f_fmu_token ==
    /\ f_pc = "fmu_token"
    /\ c_objs' = [c_objs EXCEPT ![c_self].fmu_token = f_loc.token]
    /\ f_pc' = "fmu_name"
    /\ UNCHANGED <<c_dicts, c_self, nextToken, f_loc, f_ret>>

\* self._state.fmu_name = name
f_fmu_name ==
    /\ f_pc = "fmu_name"
    /\ c_objs' = [c_objs EXCEPT ![c_self].fmu_name = f_loc.name]
    /\ f_pc' = "fmu_bytes"
    /\ UNCHANGED <<c_dicts, c_self, nextToken, f_loc, f_ret>>

\* self._state.fmu_bytes = data
f_fmu_bytes ==
    /\ f_pc = "fmu_bytes"
    /\ c_objs' = [c_objs EXCEPT ![c_self].fmu_bytes = f_loc.data]
    /\ f_pc' = "input_token"
    /\ UNCHANGED <<c_dicts, c_self, nextToken, f_loc, f_ret>>

\* self._state.input_token = None
f_input_token ==
    /\ f_pc = "input_token"
    /\ c_objs' = [c_objs EXCEPT ![c_self].input_token = None]
    /\ f_pc' = "input_name"
    /\ UNCHANGED <<c_dicts, c_self, nextToken, f_loc, f_ret>>

\* self._state.input_name = None
f_input_name ==
    /\ f_pc = "input_name"
    /\ c_objs' = [c_objs EXCEPT ![c_self].input_name = None]
    /\ f_pc' = "input_bytes"
    /\ UNCHANGED <<c_dicts, c_self, nextToken, f_loc, f_ret>>

\* self._state.input_bytes = None
f_input_bytes ==
    /\ f_pc = "input_bytes"
    /\ c_objs' = [c_objs EXCEPT ![c_self].input_bytes = None]
    /\ f_pc' = "result_blobs"
    /\ UNCHANGED <<c_dicts, c_self, nextToken, f_loc, f_ret>>

\* self._state.result_blobs = {}: a new dict
f_result_blobs ==
    /\ f_pc = "result_blobs"
    /\ c_dicts' = Append(c_dicts, <<>>)
    /\ c_objs' = [c_objs EXCEPT ![c_self].result_blobs = Len(c_dicts) + 1]
    /\ f_pc' = "return"
    /\ UNCHANGED <<c_self, nextToken, f_loc, f_ret>>

\* return token
f_return ==
    /\ f_pc = "return"
    /\ f_ret' = [returned |-> TRUE, token |-> f_loc.token]
    /\ f_loc' = NoFrame
    /\ f_pc' = "idle"
    /\ UNCHANGED <<c_objs, c_dicts, c_self, nextToken>>

\* the fmu_token property: the run starts when the session has a primary
r_fmu_token ==
    /\ r_seen.reads = 0
    /\ c_objs[c_self].fmu_token # None
    /\ r_seen' = [r_seen EXCEPT !.reads = 1, !.fmu_token = c_objs[c_self].fmu_token]

\* the input_token property
r_input_token ==
    /\ r_seen.reads = 1
    /\ r_seen' = [r_seen EXCEPT !.reads = 2, !.input_token = c_objs[c_self].input_token]

\* the engine is done: the run calls add_result, once
r_add_result(name, data) ==
    /\ r_seen.reads = 2
    /\ a_rets = {}
    /\ a_call(name, data)

\* what the steps of one thread leave alone
fFrame == <<state, last, live, mergeVars, httpVars, sweepVars, tmplVars,
            a_pc, a_loc, a_rets, k_pc, k_loc, k_ret, r_seen>>
rFrame == <<state, last, live, mergeVars, httpVars, sweepVars, tmplVars,
            c_objs, c_dicts, c_self, nextToken, a_pc, a_loc, a_rets, k_pc, k_loc, k_ret,
            f_pc, f_loc, f_ret>>
aFrame == <<state, last, live, mergeVars, httpVars, sweepVars, tmplVars, fmuVars>>

FmuNext ==
    \/ (\E name \in Names, data \in Blobs : f_call(name, data)) /\ UNCHANGED fFrame
    \/ f_new_token /\ UNCHANGED fFrame
    \/ f_fmu_token /\ UNCHANGED fFrame
    \/ f_fmu_name /\ UNCHANGED fFrame
    \/ f_fmu_bytes /\ UNCHANGED fFrame
    \/ f_input_token /\ UNCHANGED fFrame
    \/ f_input_name /\ UNCHANGED fFrame
    \/ f_input_bytes /\ UNCHANGED fFrame
    \/ f_result_blobs /\ UNCHANGED fFrame
    \/ f_return /\ UNCHANGED fFrame
    \/ r_fmu_token /\ UNCHANGED rFrame
    \/ r_input_token /\ UNCHANGED rFrame
    \/ (\E name \in Names, data \in Blobs : r_add_result(name, data)) /\ UNCHANGED aFrame
    \/ a_new_token /\ UNCHANGED aFrame
    \/ a_load_state /\ UNCHANGED aFrame
    \/ a_load_dict /\ UNCHANGED aFrame
    \/ a_store /\ UNCHANGED aFrame
    \/ a_return /\ UNCHANGED aFrame

InitFmu ==
    /\ ConcInit
    /\ MergeIdle
    /\ HttpIdle
    /\ SweepIdle
    /\ TmplIdle
    /\ FmuIdle

SpecFmu == InitFmu /\ [][FmuNext]_vars

\* the token of the primary that set_fmu is storing or has stored
new_primary == IF f_ret.returned THEN f_ret.token ELSE f_loc.token

\* the result tokens of the session that no call of the running thread made
previous_results ==
    {token \in key_set(c_dicts[c_objs[c_self].result_blobs]) :
        token \notin a_rets /\ token # a_loc.token}

\* C26: set_fmu is atomic for the readers and writers of the store: no state
\* is observable in which the new primary token is set while the auxiliary
\* artifact or the results of the previous session still resolve, and an
\* add_result that completes after set_fmu has returned is not discarded by it.
C26_SetFmuIsAtomic ==
    /\ [](r_seen.reads = 2 /\ r_seen.fmu_token = new_primary => r_seen.input_token = None)
    /\ [](c_objs[c_self].fmu_token = new_primary /\ new_primary # None
            => previous_results = {})
    /\ [][(a_pc = "return" /\ a_pc' = "idle" /\ f_ret.returned)
            => heap_get_result(a_loc.token)' # NoArtifact]_vars

----------------------------------------------------------------------------
(* SpecUpload: models are uploaded to a server whose store holds a session
   that the calls set_fmu, set_input and add_result of the store API have
   made. *)

\* the file of an upload request: no file part, an empty filename, a name
\* with another extension, a model
UploadFiles == {"none", "", "m.txt", "m.fmu"}

\* the store holds the session made by n calls of its API
UploadInit ==
    \E n \in 0..MaxPrior :
        /\ state = session_after(n)
        /\ nextToken = n
        /\ last = NoCall
        /\ live = {token \in 1..n : get_result(session_after(n), token) # NoArtifact}

UploadNext ==
    \/ Tick /\ UNCHANGED <<mergeVars, concVars, sweepVars, tmplVars, fmuVars>>
    \/ Respond /\ UNCHANGED <<mergeVars, concVars, sweepVars, tmplVars, fmuVars>>
    \/ (\E clear_first \in BOOLEAN, file \in UploadFiles, template_ok \in BOOLEAN :
            Ready /\ upload_fmu(clear_first, file, template_ok))
            /\ UNCHANGED <<mergeVars, concVars, sweepVars, tmplVars, fmuVars>>

InitUpload ==
    /\ UploadInit
    /\ MergeIdle
    /\ ConcIdle
    /\ HttpInit
    /\ SweepIdle
    /\ TmplIdle
    /\ FmuIdle

SpecUpload == InitUpload /\ [][UploadNext]_vars

\* the response to an upload that was rejected, or whose template generation
\* failed
upload_rejected(r) ==
    /\ r.handler = "upload_fmu"
    /\ r.error \in {"No file", "No file selected", "Only .fmu files allowed", "template error"}

====
